---- MODULE Spec2Model ----
(***************************************************************************)
(* Model of muve.sumo_server.sumo: the two SUMO instance backends          *)
(* (instances.py), the TCP connection (tcp.py) and the instance registry   *)
(* SumoInstanceManager (manager.py).  Every public call is one action: it  *)
(* runs to completion and records in `last` what it did and how it ended.  *)
(***************************************************************************)
EXTENDS Integers, Sequences, FiniteSets, TLC

\* ---------------------------------------------------------------- bounds
MaxInst == 2      \* instance objects ever constructed
MaxProc == 2      \* SUMO subprocesses one instance ever spawns
MaxAlloc == 2     \* ports ever taken from the counter

\* ------------------------------------------------------- program constants
_STARTING_PORT_NUMBER == 8800

Ids == 1..MaxInst
None == "None"
_DEFAULT_INSTANCE_NAME == "default"
Names == {_DEFAULT_INSTANCE_NAME, "other"}
\* the two threads that call into the module at the same time
Threads == {1, 2}

\* the file system: the paths on which pathlib.Path.exists() is true
WhichPath == "/usr/bin/sumo"
ExistingPaths == {"sim.sumocfg", "sumo-gui", WhichPath}
ConfigArgs == {"sim.sumocfg", "missing.sumocfg"}
ExecutableArgs == {None, "sumo-gui", "missing-sumo"}
\* a port argument of 0 is the omitted port (`if not port`)
PortArgs == {0, _STARTING_PORT_NUMBER}

\* outcomes of the external calls
LibOutcomes == {"ok", "TraCIException"}
PopenOutcomes == {"ok", "SubprocessError", "OSError"}
ConnectOutcomes == {"ok", "OSError"}

VARIABLES
    kind,                 \* class of each instance object, "none" before construction
    is_started,           \* SumoInstance._is_started
    process,              \* LocalTcpSumoInstance._process: 0 is None, k is the k-th process
                          \* this instance spawned (it spawned the processes 1..k)
    connection,           \* LocalTcpSumoInstance._connection
    port,                 \* LocalTcpSumoInstance._port
    exists_started,       \* LocalLibSumoInstance._exists_started
    instances,            \* SumoInstanceManager._instances (0 is absent)
    current_port_number,  \* SumoInstanceManager._current_port_number
    last,                 \* the call that just returned: operation, target, error, calls made
    thread                \* the call each thread is in: its position, its locals, its result

vars == <<kind, is_started, process, connection, port, exists_started,
          instances, current_port_number, last, thread>>

objVars == <<kind, is_started, process, connection, port, exists_started>>
mgrVars == <<instances, current_port_number>>

Exists(path) == path \in ExistingPaths

Call(op, inst, name, err, msg, ret, calls) ==
    [op |-> op, inst |-> inst, name |-> name, err |-> err, msg |-> msg,
     ret |-> ret, calls |-> calls]

\* a thread that is in no call
Idle ==
    [op |-> "none", pc |-> "idle", name |-> None, inst |-> 0, port |-> 0, tmp |-> 0,
     initError |-> "", err |-> "none", msg |-> "", ret |-> 0]

Free == {i \in Ids : kind[i] = "none"}
NewId == CHOOSE i \in Free : \A j \in Free : i <= j

Init ==
    /\ kind = [i \in Ids |-> "none"]
    /\ is_started = [i \in Ids |-> FALSE]
    /\ process = [i \in Ids |-> 0]
    /\ connection = [i \in Ids |-> None]
    /\ port = [i \in Ids |-> 0]
    /\ exists_started = FALSE
    /\ instances = [n \in Names |-> 0]
    /\ current_port_number = _STARTING_PORT_NUMBER
    /\ last = Call("init", 0, None, "none", "", 0, <<>>)
    /\ thread = [t \in Threads |-> Idle]

\* ------------------------------------------------------------ constructors
\* SumoInstance.__init__: the configuration path must exist
BaseInitError(config) ==
    IF ~Exists(config) THEN "configuration file does not exist" ELSE ""

\* mutant: the executable is checked before the configuration
TcpInitError_ExecutableFirst(config, executable) ==
    IF ~Exists(executable) THEN "executable file does not exist"
    ELSE BaseInitError(config)

\* LocalTcpSumoInstance.__init__: base check first, then the executable
TcpInitError(config, executable) ==
    IF BaseInitError(config) # "" THEN BaseInitError(config)
    ELSE IF ~Exists(executable) THEN "executable file does not exist"
    ELSE ""

\* LocalLibSumoInstance.__init__
LibInitError(config) == BaseInitError(config)

\* the fields of a freshly constructed object i
Constructed(i, k, p) ==
    /\ kind' = [kind EXCEPT ![i] = k]
    /\ is_started' = [is_started EXCEPT ![i] = FALSE]
    /\ process' = [process EXCEPT ![i] = 0]
    /\ connection' = [connection EXCEPT ![i] = None]
    /\ port' = [port EXCEPT ![i] = p]
    /\ UNCHANGED exists_started

\* LocalTcpSumoInstance(config=, executable=, port=) called directly
NewTcp(config, executable, p) ==
    /\ Free # {}
    /\ executable # None
    /\ p # 0
    /\ IF TcpInitError(config, executable) # ""
       THEN /\ last' = Call("new_tcp", 0, None, "ValueError",
                            TcpInitError(config, executable), 0, <<>>)
            /\ UNCHANGED objVars
       ELSE /\ Constructed(NewId, "tcp", p)
            /\ last' = Call("new_tcp", NewId, None, "none", "", NewId, <<>>)
    /\ UNCHANGED mgrVars

\* LocalLibSumoInstance(config=) called directly
NewLib(config) ==
    /\ Free # {}
    /\ IF LibInitError(config) # ""
       THEN /\ last' = Call("new_lib", 0, None, "ValueError", LibInitError(config), 0, <<>>)
            /\ UNCHANGED objVars
       ELSE /\ Constructed(NewId, "lib", 0)
            /\ last' = Call("new_lib", NewId, None, "none", "", NewId, <<>>)
    /\ UNCHANGED mgrVars

\* ------------------------------------------------- LocalLibSumoInstance
\* mutant: start without the check of the class-wide flag
LibStartGuard_NoExclusive(i) ==
    IF is_started[i] THEN "SumoStatusError" ELSE "none"

\* mutant: the class-wide flag is checked before the instance's own flag
LibStartGuard_ExclusiveFirst(i) ==
    IF exists_started THEN "SumoLibError"
    ELSE IF is_started[i] THEN "SumoStatusError"
    ELSE "none"

\* the two checks at the head of LocalLibSumoInstance.start, in the code's order
LibStartGuard(i) ==
    IF is_started[i] THEN "SumoStatusError"
    ELSE IF exists_started THEN "SumoLibError"
    ELSE "none"

\* mutant: the flags are set before the library is entered and stay set
\* when it raises
LibStart_FlagsBeforeCall(i, out) ==
    /\ kind[i] = "lib"
    /\ IF is_started[i]
       THEN /\ last' = Call("start", i, None, "SumoStatusError", "already started", 0, <<>>)
            /\ UNCHANGED <<is_started, exists_started>>
       ELSE IF exists_started
       THEN /\ last' = Call("start", i, None, "SumoLibError", "one simulation at a time", 0, <<>>)
            /\ UNCHANGED <<is_started, exists_started>>
       ELSE /\ is_started' = [is_started EXCEPT ![i] = (out = "ok")]
            /\ exists_started' = TRUE
            /\ last' = IF out = "ok"
                       THEN Call("start", i, None, "none", "", 0, <<"libsumo.start">>)
                       ELSE Call("start", i, None, "SumoLibError", "libsumo.start raised", 0,
                                 <<"libsumo.start">>)
    /\ UNCHANGED <<kind, process, connection, port>>
    /\ UNCHANGED mgrVars

\* mutant: the library is entered before the class-wide flag is looked at
LibStart_LibCallFirst(i, out) ==
    /\ kind[i] = "lib"
    /\ IF is_started[i]
       THEN /\ last' = Call("start", i, None, "SumoStatusError", "already started", 0, <<>>)
            /\ UNCHANGED <<is_started, exists_started>>
       ELSE IF out = "TraCIException"
       THEN /\ is_started' = [is_started EXCEPT ![i] = FALSE]
            /\ UNCHANGED exists_started
            /\ last' = Call("start", i, None, "SumoLibError", "libsumo.start raised", 0,
                            <<"libsumo.start">>)
       ELSE IF exists_started
       THEN /\ last' = Call("start", i, None, "SumoLibError", "one simulation at a time", 0,
                            <<"libsumo.start">>)
            /\ UNCHANGED <<is_started, exists_started>>
       ELSE /\ is_started' = [is_started EXCEPT ![i] = TRUE]
            /\ exists_started' = TRUE
            /\ last' = Call("start", i, None, "none", "", 0, <<"libsumo.start">>)
    /\ UNCHANGED <<kind, process, connection, port>>
    /\ UNCHANGED mgrVars

\* LocalLibSumoInstance.start
LibStart(i, out) ==
    /\ kind[i] = "lib"
    /\ IF LibStartGuard(i) = "SumoStatusError"
       THEN /\ last' = Call("start", i, None, "SumoStatusError", "already started", 0, <<>>)
            /\ UNCHANGED <<is_started, exists_started>>
       ELSE IF LibStartGuard(i) = "SumoLibError"
       THEN /\ last' = Call("start", i, None, "SumoLibError", "one simulation at a time", 0, <<>>)
            /\ UNCHANGED <<is_started, exists_started>>
       ELSE IF out = "TraCIException"
       THEN /\ is_started' = [is_started EXCEPT ![i] = FALSE]
            /\ UNCHANGED exists_started
            /\ last' = Call("start", i, None, "SumoLibError", "libsumo.start raised", 0,
                            <<"libsumo.start">>)
       ELSE /\ is_started' = [is_started EXCEPT ![i] = TRUE]
            /\ exists_started' = TRUE
            /\ last' = Call("start", i, None, "none", "", 0, <<"libsumo.start">>)
    /\ UNCHANGED <<kind, process, connection, port>>
    /\ UNCHANGED mgrVars

\* mutant: stop() without the check of the instance's own flag
StopLib_NoStatusCheck(i, closeOut) ==
    [err |-> IF closeOut = "TraCIException" THEN "SumoLibError" ELSE "none",
     msg |-> IF closeOut = "TraCIException" THEN "libsumo.close raised" ELSE "",
     calls |-> <<"libsumo.close">>,
     started |-> [is_started EXCEPT ![i] = FALSE],
     exists |-> FALSE]

\* mutant: the flags are cleared after a close that returns, not in a finally
StopLib_NoFinally(i, closeOut) ==
    IF ~is_started[i]
    THEN [err |-> "SumoStatusError", msg |-> "not started", calls |-> <<>>,
          started |-> is_started, exists |-> exists_started]
    ELSE IF closeOut = "TraCIException"
    THEN [err |-> "SumoLibError", msg |-> "libsumo.close raised", calls |-> <<"libsumo.close">>,
          started |-> is_started, exists |-> exists_started]
    ELSE [err |-> "none", msg |-> "", calls |-> <<"libsumo.close">>,
          started |-> [is_started EXCEPT ![i] = FALSE], exists |-> FALSE]

\* mutant: stop() clears the instance's own flag and leaves the class-wide one
StopLib_OwnFlagOnly(i, closeOut) ==
    IF ~is_started[i]
    THEN [err |-> "SumoStatusError", msg |-> "not started", calls |-> <<>>,
          started |-> is_started, exists |-> exists_started]
    ELSE [err |-> IF closeOut = "TraCIException" THEN "SumoLibError" ELSE "none",
          msg |-> IF closeOut = "TraCIException" THEN "libsumo.close raised" ELSE "",
          calls |-> <<"libsumo.close">>,
          started |-> [is_started EXCEPT ![i] = FALSE],
          exists |-> exists_started]

\* LocalLibSumoInstance.stop as a function of the state: the error it ends
\* with, the library calls it makes and the two flags it leaves behind
StopLib(i, closeOut) ==
    IF ~is_started[i]
    THEN [err |-> "SumoStatusError", msg |-> "not started", calls |-> <<>>,
          started |-> is_started, exists |-> exists_started]
    ELSE [err |-> IF closeOut = "TraCIException" THEN "SumoLibError" ELSE "none",
          msg |-> IF closeOut = "TraCIException" THEN "libsumo.close raised" ELSE "",
          calls |-> <<"libsumo.close">>,
          started |-> [is_started EXCEPT ![i] = FALSE],
          exists |-> FALSE]

\* LocalLibSumoInstance.stop
LibStop(i, closeOut) ==
    /\ kind[i] = "lib"
    /\ is_started' = StopLib(i, closeOut).started
    /\ exists_started' = StopLib(i, closeOut).exists
    /\ last' = Call("stop", i, None, StopLib(i, closeOut).err, StopLib(i, closeOut).msg, 0,
                    StopLib(i, closeOut).calls)
    /\ UNCHANGED <<kind, process, connection, port>>
    /\ UNCHANGED mgrVars

\* mutant: a failing step raises without calling stop()
StepLib_NoStop(i, stepOut, closeOut) ==
    IF ~is_started[i]
    THEN [err |-> "SumoStatusError", msg |-> "not started", calls |-> <<>>,
          started |-> is_started, exists |-> exists_started]
    ELSE [err |-> IF stepOut = "ok" THEN "none" ELSE "SumoLibError",
          msg |-> IF stepOut = "ok" THEN "" ELSE "libsumo.simulation.step raised",
          calls |-> <<"libsumo.simulation.step">>,
          started |-> is_started, exists |-> exists_started]

\* mutant: a failing step clears the instance's own flag and leaves the
\* class-wide one
StepLib_OwnFlagOnly(i, stepOut, closeOut) ==
    IF ~is_started[i]
    THEN [err |-> "SumoStatusError", msg |-> "not started", calls |-> <<>>,
          started |-> is_started, exists |-> exists_started]
    ELSE IF stepOut = "ok"
    THEN [err |-> "none", msg |-> "", calls |-> <<"libsumo.simulation.step">>,
          started |-> is_started, exists |-> exists_started]
    ELSE [err |-> "SumoLibError", msg |-> "libsumo.simulation.step raised",
          calls |-> <<"libsumo.simulation.step">>,
          started |-> [is_started EXCEPT ![i] = FALSE], exists |-> exists_started]

\* LocalLibSumoInstance.step as a function of the state.  When the library
\* step raises, stop() runs inside the except block: an exception of stop()
\* leaves the block in place of the SumoLibError that wraps the step failure.
StepLib(i, stepOut, closeOut) ==
    IF ~is_started[i]
    THEN [err |-> "SumoStatusError", msg |-> "not started", calls |-> <<>>,
          started |-> is_started, exists |-> exists_started]
    ELSE IF stepOut = "ok"
    THEN [err |-> "none", msg |-> "", calls |-> <<"libsumo.simulation.step">>,
          started |-> is_started, exists |-> exists_started]
    ELSE [err |-> "SumoLibError",
          msg |-> IF StopLib(i, closeOut).err = "none"
                  THEN "libsumo.simulation.step raised"
                  ELSE StopLib(i, closeOut).msg,
          calls |-> <<"libsumo.simulation.step", "stop">> \o StopLib(i, closeOut).calls,
          started |-> StopLib(i, closeOut).started,
          exists |-> StopLib(i, closeOut).exists]

\* LocalLibSumoInstance.step
LibStep(i, stepOut, closeOut) ==
    /\ kind[i] = "lib"
    /\ is_started' = StepLib(i, stepOut, closeOut).started
    /\ exists_started' = StepLib(i, stepOut, closeOut).exists
    /\ last' = Call("step", i, None, StepLib(i, stepOut, closeOut).err,
                    StepLib(i, stepOut, closeOut).msg, 0, StepLib(i, stepOut, closeOut).calls)
    /\ UNCHANGED <<kind, process, connection, port>>
    /\ UNCHANGED mgrVars

\* ------------------------------------------------- LocalTcpSumoInstance
\* LocalTcpSumoInstance.process
TcpProcess(i) ==
    /\ kind[i] = "tcp"
    /\ last' = IF process[i] = 0
               THEN Call("process", i, None, "SumoProcessError", "not spawned", 0, <<>>)
               ELSE Call("process", i, None, "none", "", process[i], <<>>)
    /\ UNCHANGED <<objVars, mgrVars>>

\* LocalTcpSumoInstance.connection
TcpConnection(i) ==
    /\ kind[i] = "tcp"
    /\ last' = IF connection[i] = None
               THEN Call("connection", i, None, "SumoConnectionError", "not established", 0, <<>>)
               ELSE Call("connection", i, None, "none", connection[i], 0, <<>>)
    /\ UNCHANGED <<objVars, mgrVars>>

\* mutant: a failing connect drops the process that was just spawned
TcpStart_DropProcess(i, spawnOut, connOut) ==
    /\ kind[i] = "tcp"
    /\ IF is_started[i]
       THEN /\ last' = Call("start", i, None, "SumoStatusError", "already started", 0, <<>>)
            /\ UNCHANGED <<is_started, process, connection>>
       ELSE IF spawnOut = "SubprocessError"
       THEN /\ last' = Call("start", i, None, "SumoProcessError", "SubprocessError", 0, <<"Popen">>)
            /\ UNCHANGED <<is_started, process, connection>>
       ELSE IF spawnOut = "OSError"
       THEN /\ last' = Call("start", i, None, "OSError", "OSError", 0, <<"Popen">>)
            /\ UNCHANGED <<is_started, process, connection>>
       ELSE /\ process[i] < MaxProc
            /\ IF connOut = "OSError"
               THEN /\ process' = [process EXCEPT ![i] = 0]
                    /\ connection' = [connection EXCEPT ![i] = "unconnected"]
                    /\ UNCHANGED is_started
                    /\ last' = Call("start", i, None, "SumoSocketError", "OSError", 0,
                                    <<"Popen", "connect">>)
               ELSE /\ process' = [process EXCEPT ![i] = process[i] + 1]
                    /\ connection' = [connection EXCEPT ![i] = "connected"]
                    /\ is_started' = [is_started EXCEPT ![i] = TRUE]
                    /\ last' = Call("start", i, None, "none", "", 0, <<"Popen", "connect">>)
    /\ UNCHANGED <<kind, port, exists_started>>
    /\ UNCHANGED mgrVars

\* mutant: the started flag is set once the spawn succeeded, before the connect
TcpStart_StartedBeforeConnect(i, spawnOut, connOut) ==
    /\ kind[i] = "tcp"
    /\ IF is_started[i]
       THEN /\ last' = Call("start", i, None, "SumoStatusError", "already started", 0, <<>>)
            /\ UNCHANGED <<is_started, process, connection>>
       ELSE IF spawnOut = "SubprocessError"
       THEN /\ last' = Call("start", i, None, "SumoProcessError", "SubprocessError", 0, <<"Popen">>)
            /\ UNCHANGED <<is_started, process, connection>>
       ELSE IF spawnOut = "OSError"
       THEN /\ last' = Call("start", i, None, "OSError", "OSError", 0, <<"Popen">>)
            /\ UNCHANGED <<is_started, process, connection>>
       ELSE /\ process[i] < MaxProc
            /\ process' = [process EXCEPT ![i] = process[i] + 1]
            /\ is_started' = [is_started EXCEPT ![i] = TRUE]
            /\ IF connOut = "OSError"
               THEN /\ connection' = [connection EXCEPT ![i] = "unconnected"]
                    /\ last' = Call("start", i, None, "SumoSocketError", "OSError", 0,
                                    <<"Popen", "connect">>)
               ELSE /\ connection' = [connection EXCEPT ![i] = "connected"]
                    /\ last' = Call("start", i, None, "none", "", 0, <<"Popen", "connect">>)
    /\ UNCHANGED <<kind, port, exists_started>>
    /\ UNCHANGED mgrVars

\* LocalTcpSumoInstance.start: the status check, then _spawn, then _connect.
\* _spawn catches subprocess.SubprocessError only; _connect stores the new
\* SumoTcpConnection before SumoTcpConnection.connect is called on it.
TcpStart(i, spawnOut, connOut) ==
    /\ kind[i] = "tcp"
    /\ IF is_started[i]
       THEN /\ last' = Call("start", i, None, "SumoStatusError", "already started", 0, <<>>)
            /\ UNCHANGED <<is_started, process, connection>>
       ELSE IF spawnOut = "SubprocessError"
       THEN /\ last' = Call("start", i, None, "SumoProcessError", "SubprocessError", 0, <<"Popen">>)
            /\ UNCHANGED <<is_started, process, connection>>
       ELSE IF spawnOut = "OSError"
       THEN /\ last' = Call("start", i, None, "OSError", "OSError", 0, <<"Popen">>)
            /\ UNCHANGED <<is_started, process, connection>>
       ELSE /\ process[i] < MaxProc
            /\ process' = [process EXCEPT ![i] = process[i] + 1]
            /\ IF connOut = "OSError"
               THEN /\ connection' = [connection EXCEPT ![i] = "unconnected"]
                    /\ UNCHANGED is_started
                    /\ last' = Call("start", i, None, "SumoSocketError", "OSError", 0,
                                    <<"Popen", "connect">>)
               ELSE /\ connection' = [connection EXCEPT ![i] = "connected"]
                    /\ is_started' = [is_started EXCEPT ![i] = TRUE]
                    /\ last' = Call("start", i, None, "none", "", 0, <<"Popen", "connect">>)
    /\ UNCHANGED <<kind, port, exists_started>>
    /\ UNCHANGED mgrVars

\* LocalTcpSumoInstance.step
TcpStep(i) ==
    /\ kind[i] = "tcp"
    /\ last' = Call("step", i, None, "NotImplementedError", "", 0, <<>>)
    /\ UNCHANGED <<objVars, mgrVars>>

\* mutant: stop() returns instead of raising
StopTcp_Returns(i) ==
    [err |-> "none", msg |-> "", calls |-> <<>>,
     started |-> is_started, exists |-> exists_started]

\* LocalTcpSumoInstance.stop as a function of the state
StopTcp(i) ==
    [err |-> "NotImplementedError", msg |-> "", calls |-> <<>>,
     started |-> is_started, exists |-> exists_started]

\* LocalTcpSumoInstance.stop
TcpStop(i) ==
    /\ kind[i] = "tcp"
    /\ last' = Call("stop", i, None, StopTcp(i).err, StopTcp(i).msg, 0, StopTcp(i).calls)
    /\ UNCHANGED <<objVars, mgrVars>>

\* instance.stop() dispatched on the class of the object
Stop(i, closeOut) == IF kind[i] = "lib" THEN StopLib(i, closeOut) ELSE StopTcp(i)

\* ------------------------------------------------- SumoInstanceManager
\* SumoInstanceManager._find_default_executable: shutil.which finds the
\* command on the search path or returns nothing
_find_default_executable(found) == IF found THEN WhichPath ELSE None

\* the executable create_local_tcp_instance passes to the factory
ResolveExecutable(executable, found) ==
    IF executable = None THEN _find_default_executable(found) ELSE executable

\* mutant: the counter is read and never written back
_choose_port_NoIncrement == [port |-> current_port_number, counter |-> current_port_number]

\* SumoInstanceManager._choose_port: the port returned and the counter left behind
_choose_port == [port |-> current_port_number, counter |-> current_port_number + 1]

\* the port create_local_tcp_instance passes to the factory, and the counter
\* after the defaults are resolved (`if not port: port = cls._choose_port()`)
ResolvePort(p) ==
    IF p = 0 THEN _choose_port ELSE [port |-> p, counter |-> current_port_number]

\* mutant: the new instance is returned and never entered in the map
_create_instance_NoInsert(op, name, initError, k, p, pre) ==
    IF instances[name] # 0
    THEN /\ last' = Call(op, 0, name, "ValueError", "already exists", 0, pre)
         /\ UNCHANGED <<objVars, instances>>
    ELSE IF initError # ""
    THEN /\ last' = Call(op, 0, name, "ValueError", initError, 0, Append(pre, "factory"))
         /\ UNCHANGED <<objVars, instances>>
    ELSE /\ Free # {}
         /\ Constructed(NewId, k, p)
         /\ UNCHANGED instances
         /\ last' = Call(op, NewId, name, "none", "", NewId, Append(pre, "factory"))

\* mutant: the name is entered in the map before the factory is called
_create_instance_InsertFirst(op, name, initError, k, p, pre) ==
    IF instances[name] # 0
    THEN /\ last' = Call(op, 0, name, "ValueError", "already exists", 0, pre)
         /\ UNCHANGED <<objVars, instances>>
    ELSE IF initError # ""
    THEN /\ Free # {}
         /\ instances' = [instances EXCEPT ![name] = NewId]
         /\ last' = Call(op, 0, name, "ValueError", initError, 0, Append(pre, "factory"))
         /\ UNCHANGED objVars
    ELSE /\ Free # {}
         /\ Constructed(NewId, k, p)
         /\ instances' = [instances EXCEPT ![name] = NewId]
         /\ last' = Call(op, NewId, name, "none", "", NewId, Append(pre, "factory"))

\* SumoInstanceManager._create_instance: the membership check, then the
\* factory, then the insertion.  initError is the factory's ValueError or "".
_create_instance(op, name, initError, k, p, pre) ==
    IF instances[name] # 0
    THEN /\ last' = Call(op, 0, name, "ValueError", "already exists", 0, pre)
         /\ UNCHANGED <<objVars, instances>>
    ELSE IF initError # ""
    THEN /\ last' = Call(op, 0, name, "ValueError", initError, 0, Append(pre, "factory"))
         /\ UNCHANGED <<objVars, instances>>
    ELSE /\ Free # {}
         /\ Constructed(NewId, k, p)
         /\ instances' = [instances EXCEPT ![name] = NewId]
         /\ last' = Call(op, NewId, name, "none", "", NewId, Append(pre, "factory"))

\* mutant: the port is taken from the counter before the executable is resolved
CreateLocalTcp_PortFirst(name, config, executable, p, found) ==
    /\ p = 0 => current_port_number < _STARTING_PORT_NUMBER + MaxAlloc
    /\ current_port_number' = ResolvePort(p).counter
    /\ IF ResolveExecutable(executable, found) = None
       THEN /\ last' = Call("create_local_tcp_instance", 0, name, "SumoExecutableNotFound",
                            "could not find default SUMO executable", 0,
                            (IF p = 0 THEN <<"_choose_port">> ELSE <<>>) \o <<"which">>)
            /\ UNCHANGED <<objVars, instances>>
       ELSE _create_instance("create_local_tcp_instance", name,
                TcpInitError(config, ResolveExecutable(executable, found)),
                "tcp", ResolvePort(p).port,
                (IF p = 0 THEN <<"_choose_port">> ELSE <<>>) \o
                (IF executable = None THEN <<"which">> ELSE <<>>))

\* SumoInstanceManager.create_local_tcp_instance: the defaults are resolved
\* before _create_instance looks at the name
CreateLocalTcp(name, config, executable, p, found) ==
    IF ResolveExecutable(executable, found) = None
    THEN /\ last' = Call("create_local_tcp_instance", 0, name, "SumoExecutableNotFound",
                         "could not find default SUMO executable", 0, <<"which">>)
         /\ UNCHANGED <<objVars, mgrVars>>
    ELSE /\ p = 0 => current_port_number < _STARTING_PORT_NUMBER + MaxAlloc
         /\ current_port_number' = ResolvePort(p).counter
         /\ _create_instance("create_local_tcp_instance", name,
                TcpInitError(config, ResolveExecutable(executable, found)),
                "tcp", ResolvePort(p).port,
                (IF executable = None THEN <<"which">> ELSE <<>>) \o
                (IF p = 0 THEN <<"_choose_port">> ELSE <<>>))

\* SumoInstanceManager.create_local_lib_instance
CreateLocalLib(name, config) ==
    /\ _create_instance("create_local_lib_instance", name, LibInitError(config), "lib", 0, <<>>)
    /\ UNCHANGED current_port_number

\* mutant: a missing name yields nothing instead of raising (dict.get)
GetInstance_NoRaise(name) ==
    /\ last' = Call("get_instance", instances[name], name, "none", "", instances[name], <<>>)
    /\ UNCHANGED <<objVars, mgrVars>>

\* SumoInstanceManager.get_instance
GetInstance(name) ==
    /\ last' = IF instances[name] = 0
               THEN Call("get_instance", 0, name, "ValueError", "has not been created", 0, <<>>)
               ELSE Call("get_instance", instances[name], name, "none", "", instances[name], <<>>)
    /\ UNCHANGED <<objVars, mgrVars>>

\* mutant: stop() is called on the looked-up instance first and the entry is
\* deleted after stop() returned
Destroy_StopFirst(name, closeOut) ==
    IF instances[name] = 0
    THEN [err |-> "ValueError", msg |-> "does not exist", calls |-> <<>>, inst |-> 0,
          map |-> instances, started |-> is_started, exists |-> exists_started]
    ELSE [err |-> Stop(instances[name], closeOut).err,
          msg |-> Stop(instances[name], closeOut).msg,
          calls |-> <<"stop">> \o Stop(instances[name], closeOut).calls \o
                    (IF Stop(instances[name], closeOut).err = "none" THEN <<"pop">> ELSE <<>>),
          inst |-> instances[name],
          map |-> IF Stop(instances[name], closeOut).err = "none"
                  THEN [instances EXCEPT ![name] = 0] ELSE instances,
          started |-> Stop(instances[name], closeOut).started,
          exists |-> Stop(instances[name], closeOut).exists]

\* SumoInstanceManager.destroy_instance as a function of the state: pop the
\* entry, then call stop() on the popped instance
Destroy(name, closeOut) ==
    IF instances[name] = 0
    THEN [err |-> "ValueError", msg |-> "does not exist", calls |-> <<>>, inst |-> 0,
          map |-> instances, started |-> is_started, exists |-> exists_started]
    ELSE [err |-> Stop(instances[name], closeOut).err,
          msg |-> Stop(instances[name], closeOut).msg,
          calls |-> <<"pop", "stop">> \o Stop(instances[name], closeOut).calls,
          inst |-> instances[name],
          map |-> [instances EXCEPT ![name] = 0],
          started |-> Stop(instances[name], closeOut).started,
          exists |-> Stop(instances[name], closeOut).exists]

\* SumoInstanceManager.destroy_instance
DestroyInstance(name, closeOut) ==
    /\ instances' = Destroy(name, closeOut).map
    /\ is_started' = Destroy(name, closeOut).started
    /\ exists_started' = Destroy(name, closeOut).exists
    /\ last' = Call("destroy_instance", Destroy(name, closeOut).inst, name,
                    Destroy(name, closeOut).err, Destroy(name, closeOut).msg, 0,
                    Destroy(name, closeOut).calls)
    /\ UNCHANGED <<kind, process, connection, port, current_port_number>>

\* ------------------------------------------------------ concurrent callers
\* Two threads call into the module with no lock around any call.  A thread
\* runs one call at a time, one step per read or write of the shared state
\* (the class attributes and the instances' fields); it can be preempted
\* between any two steps.  The result of a call stays in the thread's frame.
Enter(t, op, pc, name, inst, p, initError) ==
    thread' = [thread EXCEPT ![t] =
                  [op |-> op, pc |-> pc, name |-> name, inst |-> inst, port |-> p, tmp |-> 0,
                   initError |-> initError, err |-> "none", msg |-> "", ret |-> 0]]

Goto(t, pc) == thread' = [thread EXCEPT ![t].pc = pc]

\* the call returns or raises: the frame keeps the result and nothing else
Return(t, err, msg, ret) ==
    thread' = [thread EXCEPT ![t] = [Idle EXCEPT !.err = err, !.msg = msg, !.ret = ret]]

\* the threads that passed the check of the class-wide flag and have not yet set it
Starting == {t \in Threads : thread[t].pc \in {"libsumo_start", "set_is_started",
                                                "set_exists_started"}}

\* the threads that passed the membership check for the name and have not yet inserted
Creating(name) == {t \in Threads : thread[t].pc \in {"factory", "insert"}
                                   /\ thread[t].name = name}

\* LocalLibSumoInstance.start, `if self._is_started: raise`
ThrStart(t, i) ==
    /\ thread[t].pc = "idle"
    /\ kind[i] = "lib"
    /\ IF is_started[i]
       THEN Return(t, "SumoStatusError", "already started", 0)
       ELSE Enter(t, "start", "check_exists_started", None, i, 0, "")
    /\ UNCHANGED <<objVars, mgrVars, last>>

\* mutant: start() holds a lock from the check of the class-wide flag to the
\* write that sets it
ThrCheckExistsStarted_Locked(t) ==
    /\ thread[t].pc = "check_exists_started"
    /\ Starting = {}
    /\ IF exists_started
       THEN Return(t, "SumoLibError", "one simulation at a time", 0)
       ELSE Goto(t, "libsumo_start")
    /\ UNCHANGED <<objVars, mgrVars, last>>

\* LocalLibSumoInstance.start, `if LocalLibSumoInstance._exists_started: raise`
ThrCheckExistsStarted(t) ==
    /\ thread[t].pc = "check_exists_started"
    /\ IF exists_started
       THEN Return(t, "SumoLibError", "one simulation at a time", 0)
       ELSE Goto(t, "libsumo_start")
    /\ UNCHANGED <<objVars, mgrVars, last>>

\* LocalLibSumoInstance.start, the try block around libsumo.start
ThrLibsumoStart(t, out) ==
    /\ thread[t].pc = "libsumo_start"
    /\ IF out = "TraCIException"
       THEN /\ is_started' = [is_started EXCEPT ![thread[t].inst] = FALSE]
            /\ Return(t, "SumoLibError", "libsumo.start raised", 0)
       ELSE /\ Goto(t, "set_is_started")
            /\ UNCHANGED is_started
    /\ UNCHANGED <<kind, process, connection, port, exists_started, mgrVars, last>>

\* LocalLibSumoInstance.start, `self._is_started = True`
ThrSetIsStarted(t) ==
    /\ thread[t].pc = "set_is_started"
    /\ is_started' = [is_started EXCEPT ![thread[t].inst] = TRUE]
    /\ Goto(t, "set_exists_started")
    /\ UNCHANGED <<kind, process, connection, port, exists_started, mgrVars, last>>

\* LocalLibSumoInstance.start, `LocalLibSumoInstance._exists_started = True`
ThrSetExistsStarted(t) ==
    /\ thread[t].pc = "set_exists_started"
    /\ exists_started' = TRUE
    /\ Return(t, "none", "", 0)
    /\ UNCHANGED <<kind, is_started, process, connection, port, mgrVars, last>>

\* SumoInstanceManager.create_local_lib_instance up to the call of _create_instance
ThrCreateLocalLib(t, name, config) ==
    /\ thread[t].pc = "idle"
    /\ Enter(t, "create_local_lib_instance", "check_name", name, 0, 0, LibInitError(config))
    /\ UNCHANGED <<objVars, mgrVars, last>>

\* SumoInstanceManager.create_local_tcp_instance up to `if not port`
ThrCreateLocalTcp(t, name, config, executable, p, found) ==
    /\ thread[t].pc = "idle"
    /\ IF ResolveExecutable(executable, found) = None
       THEN Return(t, "SumoExecutableNotFound", "could not find default SUMO executable", 0)
       ELSE Enter(t, "create_local_tcp_instance",
                  IF p = 0 THEN "choose_port_read" ELSE "check_name", name, 0, p,
                  TcpInitError(config, ResolveExecutable(executable, found)))
    /\ UNCHANGED <<objVars, mgrVars, last>>

\* mutant: the counter is read and incremented in one step, under a lock
ThrChoosePortRead_Atomic(t) ==
    /\ thread[t].pc = "choose_port_read"
    /\ current_port_number < _STARTING_PORT_NUMBER + MaxAlloc
    /\ thread' = [thread EXCEPT ![t].port = current_port_number, ![t].pc = "check_name"]
    /\ current_port_number' = current_port_number + 1
    /\ UNCHANGED <<objVars, instances, last>>

\* SumoInstanceManager._choose_port, `port = cls._current_port_number`
ThrChoosePortRead(t) ==
    /\ thread[t].pc = "choose_port_read"
    /\ thread' = [thread EXCEPT ![t].port = current_port_number,
                                ![t].pc = "choose_port_load"]
    /\ UNCHANGED <<objVars, mgrVars, last>>

\* SumoInstanceManager._choose_port, `cls._current_port_number += 1`: the load
ThrChoosePortLoad(t) ==
    /\ thread[t].pc = "choose_port_load"
    /\ current_port_number < _STARTING_PORT_NUMBER + MaxAlloc
    /\ thread' = [thread EXCEPT ![t].tmp = current_port_number,
                                ![t].pc = "choose_port_store"]
    /\ UNCHANGED <<objVars, mgrVars, last>>

\* SumoInstanceManager._choose_port, `cls._current_port_number += 1`: the store
ThrChoosePortStore(t) ==
    /\ thread[t].pc = "choose_port_store"
    /\ current_port_number' = thread[t].tmp + 1
    /\ thread' = [thread EXCEPT ![t].tmp = 0, ![t].pc = "check_name"]
    /\ UNCHANGED <<objVars, instances, last>>

\* mutant: _create_instance holds a lock from the membership check to the insertion
ThrCheckName_Locked(t) ==
    /\ thread[t].pc = "check_name"
    /\ Creating(thread[t].name) = {}
    /\ IF instances[thread[t].name] # 0
       THEN Return(t, "ValueError", "already exists", 0)
       ELSE Goto(t, "factory")
    /\ UNCHANGED <<objVars, mgrVars, last>>

\* SumoInstanceManager._create_instance, `if name in cls._instances: raise`
ThrCheckName(t) ==
    /\ thread[t].pc = "check_name"
    /\ IF instances[thread[t].name] # 0
       THEN Return(t, "ValueError", "already exists", 0)
       ELSE Goto(t, "factory")
    /\ UNCHANGED <<objVars, mgrVars, last>>

\* SumoInstanceManager._create_instance, `instance = instance_factory()`
ThrFactory(t) ==
    /\ thread[t].pc = "factory"
    /\ IF thread[t].initError # ""
       THEN /\ Return(t, "ValueError", thread[t].initError, 0)
            /\ UNCHANGED objVars
       ELSE /\ Free # {}
            /\ Constructed(NewId, IF thread[t].op = "create_local_lib_instance"
                                  THEN "lib" ELSE "tcp", thread[t].port)
            /\ thread' = [thread EXCEPT ![t].inst = NewId, ![t].port = 0,
                                        ![t].pc = "insert"]
    /\ UNCHANGED <<mgrVars, last>>

\* SumoInstanceManager._create_instance, `cls._instances[name] = instance; return instance`
ThrInsert(t) ==
    /\ thread[t].pc = "insert"
    /\ instances' = [instances EXCEPT ![thread[t].name] = thread[t].inst]
    /\ Return(t, "none", "", thread[t].inst)
    /\ UNCHANGED <<objVars, current_port_number, last>>

\* ------------------------------------------------------- specification
\* calls on library-backed instances and on a registry that holds them
NextLib ==
    \/ \E c \in ConfigArgs : NewLib(c)
    \/ \E i \in Ids, o \in LibOutcomes : LibStart(i, o)
    \/ \E i \in Ids, o \in LibOutcomes, c \in LibOutcomes : LibStep(i, o, c)
    \/ \E i \in Ids, c \in LibOutcomes : LibStop(i, c)
    \/ \E n \in Names, c \in ConfigArgs : CreateLocalLib(n, c)
    \/ \E n \in Names : GetInstance(n)
    \/ \E n \in Names, c \in LibOutcomes : DestroyInstance(n, c)

\* calls on process-backed instances
NextTcp ==
    \/ \E c \in ConfigArgs, e \in ExecutableArgs, p \in PortArgs : NewTcp(c, e, p)
    \/ \E i \in Ids, s \in PopenOutcomes, c \in ConnectOutcomes : TcpStart(i, s, c)
    \/ \E i \in Ids : TcpStep(i)
    \/ \E i \in Ids : TcpStop(i)
    \/ \E i \in Ids : TcpConnection(i)
    \/ \E i \in Ids : TcpProcess(i)

\* calls on the registry, and start() calls on the instances it returned:
\* those that succeed and those whose spawn fails (the other failing ones are
\* behaviours of Spec)
NextMgr ==
    \/ \E n \in Names, c \in ConfigArgs, e \in ExecutableArgs, p \in PortArgs, f \in BOOLEAN :
          CreateLocalTcp(n, c, e, p, f)
    \/ \E n \in Names, c \in ConfigArgs : CreateLocalLib(n, c)
    \/ \E n \in Names : GetInstance(n)
    \/ \E n \in Names, c \in LibOutcomes : DestroyInstance(n, c)
    \/ \E i \in Ids : LibStart(i, "ok")
    \/ \E i \in Ids, o \in PopenOutcomes : TcpStart(i, o, "ok")

\* calls on instances of both backends
Next == NextLib \/ NextTcp

\* two threads in start() calls on library-backed instances that were
\* constructed before
NextThrStart ==
    \/ \E c \in ConfigArgs : NewLib(c) /\ UNCHANGED thread
    \/ \E t \in Threads, i \in Ids : ThrStart(t, i)
    \/ \E t \in Threads : ThrCheckExistsStarted(t)
    \/ \E t \in Threads, o \in LibOutcomes : ThrLibsumoStart(t, o)
    \/ \E t \in Threads : ThrSetIsStarted(t)
    \/ \E t \in Threads : ThrSetExistsStarted(t)

\* two threads in create_local_lib_instance calls on the registry
NextThrCreate ==
    \/ \E t \in Threads, n \in Names, c \in ConfigArgs : ThrCreateLocalLib(t, n, c)
    \/ \E t \in Threads : ThrCheckName(t)
    \/ \E t \in Threads : ThrFactory(t)
    \/ \E t \in Threads : ThrInsert(t)

\* two threads in create_local_tcp_instance calls that are given no port
NextThrPort ==
    \/ \E t \in Threads, n \in Names, c \in ConfigArgs, e \in ExecutableArgs, f \in BOOLEAN :
          ThrCreateLocalTcp(t, n, c, e, 0, f)
    \/ \E t \in Threads : ThrChoosePortRead(t)
    \/ \E t \in Threads : ThrChoosePortLoad(t)
    \/ \E t \in Threads : ThrChoosePortStore(t)
    \/ \E t \in Threads : ThrCheckName(t)
    \/ \E t \in Threads : ThrFactory(t)
    \/ \E t \in Threads : ThrInsert(t)

\* one caller: every call returns before the next one is made
Spec == Init /\ [][Next /\ UNCHANGED thread]_vars
SpecMgr == Init /\ [][NextMgr /\ UNCHANGED thread]_vars
\* two callers at once
SpecThrStart == Init /\ [][NextThrStart]_vars
SpecThrCreate == Init /\ [][NextThrCreate]_vars
SpecThrPort == Init /\ [][NextThrPort]_vars

TypeOK ==
    /\ kind \in [Ids -> {"none", "tcp", "lib"}]
    /\ is_started \in [Ids -> BOOLEAN]
    /\ process \in [Ids -> 0..MaxProc]
    /\ connection \in [Ids -> {None, "unconnected", "connected"}]
    /\ exists_started \in BOOLEAN
    /\ instances \in [Names -> 0..MaxInst]
    /\ current_port_number \in _STARTING_PORT_NUMBER..(_STARTING_PORT_NUMBER + MaxAlloc)
    /\ \A t \in Threads : thread[t].inst \in 0..MaxInst

\* ------------------------------------------------------------- properties
StartedLib == {i \in Ids : kind[i] = "lib" /\ is_started[i]}

\* C1: whatever start(), step() and stop() calls were made on library-backed
\* instances, and however the library calls ended, at most one library-backed
\* instance is started.
C1_AtMostOneStarted == Cardinality(StartedLib) <= 1

\* a second library-backed instance exists beside the one that was just started
C1_Witness ==
    /\ last.op = "start" /\ last.err = "none"
    /\ kind[last.inst] = "lib" /\ is_started[last.inst]
    /\ \E b \in Ids \ {last.inst} : kind[b] = "lib"

\* C2: start() on a library-backed instance B while another library-backed
\* instance A is started fails with SumoLibError and never enters
\* libsumo.start; A stays started, B stays not started, the class-wide flag
\* stays set.
C2_StartWhileOtherStarted ==
    [][\A b \in Ids :
          (/\ last'.op = "start" /\ last'.inst = b /\ kind[b] = "lib"
           /\ \E a \in Ids \ {b} : kind[a] = "lib" /\ is_started[a])
          => /\ last'.err = "SumoLibError"
             /\ last'.calls = <<>>
             /\ is_started' = is_started
             /\ ~is_started'[b]
             /\ exists_started']_vars

C2_Witness ==
    /\ last.op = "start" /\ last.err = "SumoLibError" /\ last.calls = <<>>
    /\ kind[last.inst] = "lib" /\ ~is_started[last.inst]
    /\ \E a \in Ids \ {last.inst} : kind[a] = "lib" /\ is_started[a]
    /\ exists_started

\* C3: start() on an instance that is already started, of either backend,
\* fails with SumoStatusError and does nothing else: no Popen, no connect, no
\* libsumo.start, and no field of any instance, nor the class-wide flag, changes.
C3_StartWhenStarted ==
    [][\A i \in Ids :
          (last'.op = "start" /\ last'.inst = i /\ is_started[i])
          => /\ last'.err = "SumoStatusError"
             /\ last'.calls = <<>>
             /\ UNCHANGED <<objVars, mgrVars>>]_vars

C3_Witness ==
    /\ last.op = "start" /\ last.err = "SumoStatusError"
    /\ kind[last.inst] = "lib" /\ is_started[last.inst] /\ exists_started

\* the same case on the process backend
C3_WitnessTcp ==
    /\ last.op = "start" /\ last.err = "SumoStatusError"
    /\ kind[last.inst] = "tcp" /\ is_started[last.inst]

\* a start() call that ended the way the library start call let it end: it
\* returned, or it raised because libsumo.start raised
StartNotRefused(c) == c.msg \in {"", "libsumo.start raised"}

\* C4: when step() on a started library-backed instance ends with the
\* library's step having raised (whether or not the close call of the inner
\* stop() raised too), the instance's flag and the class-wide flag are both
\* false, and a start() that follows on any library-backed instance is not
\* refused: it succeeds unless libsumo.start itself raises.
C4_StepFailureStops ==
    [][/\ (last'.op = "step" /\ last'.err = "SumoLibError")
          => (~is_started'[last'.inst] /\ ~exists_started')
       /\ (/\ last.op = "step" /\ last.err = "SumoLibError"
           /\ last'.op = "start" /\ kind[last'.inst] = "lib")
          => /\ StartNotRefused(last')
             /\ last'.msg = "" => (last'.err = "none" /\ is_started'[last'.inst]
                                   /\ exists_started')]_vars

\* the step failed and the close call inside the inner stop() failed as well
C4_Witness ==
    /\ last.op = "step" /\ last.err = "SumoLibError"
    /\ last.calls = <<"libsumo.simulation.step", "stop", "libsumo.close">>
    /\ last.msg = "libsumo.close raised"
    /\ ~is_started[last.inst] /\ ~exists_started

\* C5: stop() on a started library-backed instance leaves the instance's flag
\* and the class-wide flag false whether libsumo.close returns or raises; when
\* it raises stop() fails with SumoLibError, and a start() right after the
\* failing stop() is not refused.
C5_StopAlwaysClears ==
    [][/\ \A i \in Ids :
            (last'.op = "stop" /\ last'.inst = i /\ kind[i] = "lib" /\ is_started[i])
            => /\ ~is_started'[i] /\ ~exists_started'
               /\ last'.calls = <<"libsumo.close">>
               /\ last'.err \in {"none", "SumoLibError"}
               /\ last'.err = "SumoLibError" <=> last'.msg = "libsumo.close raised"
       /\ (/\ last.op = "stop" /\ last.err = "SumoLibError"
           /\ last'.op = "start" /\ kind[last'.inst] = "lib")
          => /\ StartNotRefused(last')
             /\ last'.msg = "" => (last'.err = "none" /\ is_started'[last'.inst]
                                   /\ exists_started')]_vars

C5_Witness ==
    /\ last.op = "stop" /\ last.err = "SumoLibError" /\ last.msg = "libsumo.close raised"
    /\ kind[last.inst] = "lib" /\ ~is_started[last.inst] /\ ~exists_started

IsCreate(c) == c.op \in {"create_local_tcp_instance", "create_local_lib_instance"}

\* the objects the registry does not hold
Unregistered == {i \in Ids : kind[i] # "none" /\ \A n \in Names : instances[n] # i}

\* C6: a create call of either backend on a name that is in the map fails
\* with the "already exists" ValueError whatever optional arguments are given
\* or left out, the factory is not called and the map is unchanged.
C6_CreateExistingName ==
    [][\A n \in Names :
          (IsCreate(last') /\ last'.name = n /\ instances[n] # 0)
          => /\ last'.err = "ValueError" /\ last'.msg = "already exists"
             /\ instances' = instances
             /\ kind' = kind]_vars

C8_DestroyStops ==
    (last.op = "destroy_instance" /\ last.inst # 0) => ~is_started[last.inst]

\* C9: get_instance and destroy_instance on a name that is not in the map
\* fail with the ValueError of the missing name, call stop() on nothing and
\* change neither the map, the port counter nor any instance.
C9_UnknownName ==
    [][\A n \in Names :
          (/\ last'.op \in {"get_instance", "destroy_instance"}
           /\ last'.name = n /\ instances[n] = 0)
          => /\ last'.err = "ValueError"
             /\ last'.msg = (IF last'.op = "get_instance" THEN "has not been created"
                             ELSE "does not exist")
             /\ last'.calls = <<>>
             /\ UNCHANGED <<objVars, mgrVars>>]_vars

\* the name is unknown although an instance was registered and destroyed before
C9_Witness ==
    /\ last.op = "destroy_instance" /\ last.err = "ValueError"
    /\ instances[last.name] = 0
    /\ Unregistered # {}

\* C10: get_instance on a registered name returns the mapped instance and
\* changes nothing; an entry of the map changes only in a create call on that
\* name that succeeded, which maps the name to the new instance it returns,
\* and in a destroy_instance call on that name, which unmaps it.
C10_GetReturnsLatestCreate ==
    [][/\ last'.op = "get_instance"
          => /\ UNCHANGED <<objVars, mgrVars>>
             /\ instances[last'.name] # 0
                => (last'.err = "none" /\ last'.ret = instances[last'.name])
       /\ \A n \in Names :
            instances'[n] # instances[n]
            => \/ /\ IsCreate(last') /\ last'.name = n /\ last'.err = "none"
                  /\ instances'[n] = last'.ret
                  /\ kind[last'.ret] = "none" /\ kind'[last'.ret] # "none"
               \/ /\ last'.op = "destroy_instance" /\ last'.name = n
                  /\ instances'[n] = 0]_vars

\* get_instance returns the second instance created under a name
C10_Witness ==
    /\ last.op = "get_instance" /\ last.err = "none"
    /\ last.ret # 0 /\ last.ret = instances[last.name]
    /\ \E i \in Unregistered : i < last.ret

\* the call c took a port from the counter
Allocated(c) == \E x \in DOMAIN c.calls : c.calls[x] = "_choose_port"

RegisteredTcp == {i \in Ids : kind[i] = "tcp" /\ \E n \in Names : instances[n] = i}

\* C11: the counter starts at 8800 and never decreases; a create call that
\* is given no port takes the counter's value and leaves the counter one
\* higher, and no other call moves the counter: the ports given out are
\* 8800, 8801, ... in allocation order, none of them twice, also when the
\* instance that held one has been destroyed.
C11_PortsIncrease ==
    /\ current_port_number = _STARTING_PORT_NUMBER
    /\ [][/\ current_port_number' >= current_port_number
          /\ Allocated(last')
             => /\ last'.op = "create_local_tcp_instance"
                /\ current_port_number' = current_port_number + 1
                /\ last'.err = "none" => port'[last'.ret] = current_port_number
          /\ ~Allocated(last') => current_port_number' = current_port_number
          /\ \A i \in Ids : kind[i] # "none" => port'[i] = port[i]]_vars

\* the second port was given out after the holder of the first was destroyed
C11_Witness ==
    /\ last.op = "create_local_tcp_instance" /\ last.err = "none" /\ Allocated(last)
    /\ port[last.ret] = _STARTING_PORT_NUMBER + 1
    /\ \E i \in Unregistered : kind[i] = "tcp" /\ port[i] = _STARTING_PORT_NUMBER
    /\ current_port_number = _STARTING_PORT_NUMBER + 2

\* C12: a port the registry chooses is new to the manager, whether the
\* earlier ports were chosen by it or supplied by the caller: no two
\* registered process-backed instances have the same port.
C12_RegisteredPortsDistinct ==
    \A i, j \in RegisteredTcp : i # j => port[i] # port[j]

\* C13: while no start() of a process-backed instance has succeeded, also
\* after a start() that failed at the spawn or at the connect, the process
\* accessor raises SumoProcessError and the connection accessor raises
\* SumoConnectionError.
C13_AccessorsFailBeforeStart ==
    (/\ last.op \in {"process", "connection"}
     /\ kind[last.inst] = "tcp" /\ ~is_started[last.inst])
    => last.err = (IF last.op = "process" THEN "SumoProcessError"
                   ELSE "SumoConnectionError")

\* the start() call c of a process-backed instance ended in its spawn step
SpawnFailed(c) == c.op = "start" /\ c.calls = <<"Popen">>

\* C14: when the spawn inside start() of a process-backed instance fails,
\* whether Popen raised an OSError or a SubprocessError, start() raises
\* SumoProcessError, the connect is not attempted and the instance is not
\* started.
C14_SpawnFailureIsProcessError ==
    (SpawnFailed(last) /\ kind[last.inst] = "tcp")
    => (last.err = "SumoProcessError" /\ ~is_started[last.inst])

\* C15: start() of a process-backed instance spawns, then connects; when the
\* connect fails start() raises the connection's SumoSocketError, the
\* instance is not started, and the process spawned by this call is kept and
\* is what the process accessor returns.
C15_ConnectFailureKeepsProcess ==
    [][/\ \A i \in Ids :
            (/\ last'.op = "start" /\ last'.inst = i /\ kind[i] = "tcp"
             /\ Len(last'.calls) = 2 /\ last'.err # "none")
            => /\ last'.calls = <<"Popen", "connect">>
               /\ last'.err = "SumoSocketError"
               /\ ~is_started'[i]
               /\ process'[i] = process[i] + 1
       /\ (last'.op = "start" /\ kind[last'.inst] = "tcp" /\ last'.calls # <<>>)
          => last'.calls \in {<<"Popen">>, <<"Popen", "connect">>}
       /\ (/\ last.op = "start" /\ last.err = "SumoSocketError"
           /\ last'.op = "process" /\ last'.inst = last.inst)
          => (last'.err = "none" /\ last'.ret = process[last.inst] /\ last'.ret # 0)]_vars

C15_Witness ==
    /\ last.op = "start" /\ last.err = "SumoSocketError"
    /\ kind[last.inst] = "tcp" /\ ~is_started[last.inst]
    /\ process[last.inst] = 1 /\ connection[last.inst] = "unconnected"

\* C16: step() and stop() of a process-backed instance raise
\* NotImplementedError in every state of the instance and change nothing.
C16_StepStopNotImplemented ==
    [][(last'.op \in {"step", "stop"} /\ kind[last'.inst] = "tcp")
       => /\ last'.err = "NotImplementedError"
          /\ last'.calls = <<>>
          /\ UNCHANGED <<objVars, mgrVars>>]_vars

\* stop() on a started instance
C16_Witness ==
    /\ last.op = "stop" /\ last.err = "NotImplementedError"
    /\ kind[last.inst] = "tcp" /\ is_started[last.inst]
    /\ process[last.inst] # 0 /\ connection[last.inst] = "connected"

\* step() after a start() that failed at the connect
C16_WitnessFailedStart ==
    /\ last.op = "step" /\ last.err = "NotImplementedError"
    /\ kind[last.inst] = "tcp" /\ ~is_started[last.inst] /\ process[last.inst] # 0

\* the create call c was given a configuration and an executable that exist
\* (or found the default executable)
PathsValid(c) ==
    c.msg \notin {"configuration file does not exist", "executable file does not exist",
                  "could not find default SUMO executable"}

\* C17 as claimed: create_local_tcp_instance on the free name "default" with
\* paths that exist raises SumoProcessError (the spawn failing) and leaves
\* the name out of the map.
C17_CreateSurfacesProcessError ==
    [][(/\ last'.op = "create_local_tcp_instance"
        /\ last'.name = _DEFAULT_INSTANCE_NAME
        /\ instances[_DEFAULT_INSTANCE_NAME] = 0
        /\ PathsValid(last'))
       => (last'.err = "SumoProcessError" /\ instances'[_DEFAULT_INSTANCE_NAME] = 0)]_vars

\* C17 as amended: create_local_tcp_instance spawns nothing.  On a free name
\* with paths that exist it returns a new instance that is not started and
\* has no process and no connection, and the name is mapped to it; no create
\* call raises SumoProcessError.  A spawn failure surfaces from a later
\* start(), which leaves the map as it is.
C17_CreateDoesNotSpawn ==
    [][/\ \A n \in Names :
            (/\ last'.op = "create_local_tcp_instance" /\ last'.name = n
             /\ instances[n] = 0 /\ PathsValid(last'))
            => /\ last'.err = "none"
               /\ \A x \in DOMAIN last'.calls : last'.calls[x] # "Popen"
               /\ last'.ret # 0 /\ instances'[n] = last'.ret
               /\ kind[last'.ret] = "none" /\ kind'[last'.ret] = "tcp"
               /\ ~is_started'[last'.ret]
               /\ process'[last'.ret] = 0 /\ connection'[last'.ret] = None
       /\ IsCreate(last') => last'.err \in {"none", "ValueError", "SumoExecutableNotFound"}
       /\ SpawnFailed(last')
          => (instances' = instances /\ ~is_started'[last'.inst]
              /\ process' = process)]_vars

\* the spawn failed in start() of the instance registered as "default"
C17_Witness ==
    /\ SpawnFailed(last) /\ last.err = "SumoProcessError"
    /\ instances[_DEFAULT_INSTANCE_NAME] = last.inst
    /\ process[last.inst] = 0 /\ ~is_started[last.inst]

\* C18: when step() of a started library-backed instance fails, the caller
\* gets the SumoLibError that wraps the step failure, also when the close
\* call of the inner stop() raised: the error of the inner stop() is not
\* surfaced.
C18_StepErrorSurfaces ==
    (last.op = "step" /\ last.err = "SumoLibError")
    => last.msg = "libsumo.simulation.step raised"

\* C19: when libsumo.start raises inside start() of a library-backed
\* instance, start() raises SumoLibError, the instance is not started and the
\* class-wide flag keeps its value, false; a start() that follows on any
\* library-backed instance is not refused.
C19_StartFailureLeavesFlag ==
    [][/\ (/\ last'.op = "start" /\ kind[last'.inst] = "lib"
           /\ last'.msg = "libsumo.start raised")
          => /\ last'.err = "SumoLibError"
             /\ last'.calls = <<"libsumo.start">>
             /\ ~is_started'[last'.inst]
             /\ ~exists_started /\ ~exists_started'
             /\ is_started' = is_started
       /\ (/\ last.op = "start" /\ last.msg = "libsumo.start raised"
           /\ last'.op = "start" /\ kind[last'.inst] = "lib")
          => /\ StartNotRefused(last')
             /\ last'.msg = "" => (last'.err = "none" /\ is_started'[last'.inst]
                                   /\ exists_started')]_vars

\* libsumo.start raised while a second library-backed instance exists
C19_Witness ==
    /\ last.op = "start" /\ last.msg = "libsumo.start raised"
    /\ last.err = "SumoLibError"
    /\ ~is_started[last.inst] /\ ~exists_started
    /\ \E b \in Ids \ {last.inst} : kind[b] = "lib"

\* C20: step() and stop() of a library-backed instance that is not started
\* raise SumoStatusError, enter neither libsumo.simulation.step nor
\* libsumo.close and change nothing: another library-backed instance that is
\* started stays started and the class-wide flag stays as it is.
C20_NotStartedStepStop ==
    [][\A i \in Ids :
          (/\ last'.op \in {"step", "stop"} /\ last'.inst = i
           /\ kind[i] = "lib" /\ ~is_started[i])
          => /\ last'.err = "SumoStatusError"
             /\ last'.calls = <<>>
             /\ UNCHANGED <<objVars, mgrVars>>]_vars

\* stop() on a stopped instance while another instance is started
C20_Witness ==
    /\ last.op = "stop" /\ last.err = "SumoStatusError"
    /\ kind[last.inst] = "lib" /\ ~is_started[last.inst]
    /\ exists_started
    /\ \E a \in Ids \ {last.inst} : kind[a] = "lib" /\ is_started[a]

\* C21: in every state in which no library-backed instance is started,
\* start() on any library-backed instance (never started, stopped before, or
\* left by a start, step or stop that failed) is not refused: when
\* libsumo.start does not raise it returns, the instance is started and the
\* class-wide flag is set.
C21_RestartSucceeds ==
    [][(/\ last'.op = "start" /\ kind[last'.inst] = "lib"
        /\ StartedLib = {}
        /\ last'.msg # "libsumo.start raised")
       => /\ last'.err = "none"
          /\ last'.calls = <<"libsumo.start">>
          /\ is_started'[last'.inst]
          /\ exists_started'
          /\ StartedLib' = {last'.inst}]_vars

\* a start() that returned while a second library-backed instance is stopped
C21_Witness ==
    /\ last.op = "start" /\ last.err = "none" /\ last.calls = <<"libsumo.start">>
    /\ StartedLib = {last.inst} /\ exists_started
    /\ \E b \in Ids \ {last.inst} : kind[b] = "lib" /\ ~is_started[b]
    /\ \A n \in Names : instances[n] = 0

\* C22: LocalTcpSumoInstance(config, executable, port) returns exactly when
\* both paths exist, and the new instance is not started and has no process
\* and no connection; otherwise it raises ValueError naming the configuration
\* when the configuration is missing (the executable missing or not) and the
\* executable when only the executable is missing.  LocalLibSumoInstance(config)
\* returns exactly when the configuration exists.
C22_ConstructorChecksPaths ==
    [][/\ \A c \in ConfigArgs, e \in ExecutableArgs, p \in PortArgs :
            NewTcp(c, e, p)
            => /\ last'.err = "none" <=> (Exists(c) /\ Exists(e))
               /\ last'.err = "none"
                  => /\ last'.ret # 0 /\ kind[last'.ret] = "none"
                     /\ kind'[last'.ret] = "tcp"
                     /\ ~is_started'[last'.ret]
                     /\ process'[last'.ret] = 0
                     /\ connection'[last'.ret] = None
                     /\ port'[last'.ret] = p
               /\ last'.err # "none"
                  => /\ last'.err = "ValueError"
                     /\ last'.msg = (IF ~Exists(c) THEN "configuration file does not exist"
                                     ELSE "executable file does not exist")
                     /\ UNCHANGED objVars
       /\ \A c \in ConfigArgs :
            NewLib(c)
            => /\ last'.err = "none" <=> Exists(c)
               /\ last'.err = "none"
                  => (kind[last'.ret] = "none" /\ kind'[last'.ret] = "lib"
                      /\ ~is_started'[last'.ret])
               /\ last'.err # "none"
                  => (last'.err = "ValueError"
                      /\ last'.msg = "configuration file does not exist"
                      /\ UNCHANGED objVars)]_vars

\* a construction was refused for its configuration after one that returned
C22_Witness ==
    /\ last.op = "new_tcp" /\ last.err = "ValueError"
    /\ last.msg = "configuration file does not exist"
    /\ \E i \in Ids : kind[i] = "tcp" /\ ~is_started[i] /\ process[i] = 0
                       /\ connection[i] = None

\* C23: create_local_tcp_instance without an executable, when the default
\* command is not on the search path, raises SumoExecutableNotFound whatever
\* the other arguments are: the factory is not called, no instance is
\* constructed, the map is as it was (the name is not added to it) and the
\* counter keeps its value.
C23_ExecutableNotFound ==
    [][\A n \in Names, c \in ConfigArgs, p \in PortArgs :
          CreateLocalTcp(n, c, None, p, FALSE)
          => /\ last'.err = "SumoExecutableNotFound"
             /\ last'.calls = <<"which">>
             /\ last'.ret = 0
             /\ kind' = kind
             /\ instances' = instances
             /\ instances[n] = 0 => instances'[n] = 0
             /\ current_port_number' = current_port_number
             /\ UNCHANGED objVars]_vars

\* the default executable was not found for a free name, beside a registered
\* instance whose port came from the counter
C23_Witness ==
    /\ last.op = "create_local_tcp_instance" /\ last.err = "SumoExecutableNotFound"
    /\ instances[last.name] = 0
    /\ \E i \in RegisteredTcp : port[i] = _STARTING_PORT_NUMBER
    /\ current_port_number = _STARTING_PORT_NUMBER + 1

\* the instances the threads' last calls returned
Returned == {thread[t].ret : t \in Threads} \ {0}

\* C24: nothing makes start() of a library-backed instance exclusive between
\* its read of the class-wide flag and its write of it.  A thread at the
\* check passes it whenever the flag is clear, whichever steps of start()
\* other threads have taken, and a thread that passed goes on to set its
\* instance's flag and the class-wide flag without looking again: start()
\* calls on two instances that interleave there both succeed and both
\* instances are started.
C24_StartNotExclusive ==
    \A t \in Threads :
        /\ (thread[t].pc = "check_exists_started" /\ ~exists_started)
           => ENABLED (ThrCheckExistsStarted(t) /\ thread'[t].pc = "libsumo_start")
        /\ thread[t].pc = "libsumo_start"
           => ENABLED (ThrLibsumoStart(t, "ok") /\ thread'[t].pc = "set_is_started")
        /\ thread[t].pc = "set_is_started"
           => ENABLED (ThrSetIsStarted(t) /\ is_started'[thread[t].inst])
        /\ thread[t].pc = "set_exists_started"
           => ENABLED (ThrSetExistsStarted(t) /\ exists_started'
                       /\ thread'[t].pc = "idle" /\ thread'[t].err = "none")

\* both start() calls returned and two library-backed instances are started
C24_Witness ==
    /\ Cardinality(StartedLib) = 2
    /\ exists_started
    /\ \A t \in Threads : thread[t].pc = "idle" /\ thread[t].err = "none"

\* C25: nothing makes _create_instance exclusive between the membership
\* check and the insertion.  A thread at the check passes it whenever the
\* name is not in the map, whichever steps other threads have taken for the
\* same name, and a thread at the insertion writes its instance over
\* whatever the map holds and returns it: two create calls on one name that
\* interleave there both return an instance, with no "already exists" error,
\* and the map holds the one inserted last.
C25_CreateNotExclusive ==
    \A t \in Threads :
        /\ (thread[t].pc = "check_name" /\ instances[thread[t].name] = 0)
           => ENABLED (ThrCheckName(t) /\ thread'[t].pc = "factory")
        /\ thread[t].pc = "insert"
           => ENABLED (/\ ThrInsert(t)
                       /\ instances'[thread[t].name] = thread[t].inst
                       /\ thread'[t].err = "none"
                       /\ thread'[t].ret = thread[t].inst)

\* both create calls returned an instance; the map holds one of the two and
\* the other was overwritten (nothing is ever removed from the map here)
C25_Witness ==
    /\ \A t \in Threads : thread[t].pc = "idle" /\ thread[t].err = "none" /\ thread[t].ret # 0
    /\ thread[1].ret # thread[2].ret
    /\ \E n \in Names : /\ instances[n] \in Returned
                        /\ \A m \in Names \ {n} : instances[m] = 0

\* C26: _choose_port reads the counter in one step and increments it in
\* later ones, with no lock.  The read leaves the counter as it is, so a
\* second thread that reads before the first has written reads the same
\* number: two create calls that are given no port can both be given the
\* same port.
C26_ChoosePortNotAtomic ==
    \A t \in Threads :
        /\ thread[t].pc = "choose_port_read"
           => ENABLED (/\ ThrChoosePortRead(t)
                       /\ thread'[t].port = current_port_number
                       /\ current_port_number' = current_port_number)
        /\ (thread[t].pc = "choose_port_load"
            /\ current_port_number < _STARTING_PORT_NUMBER + MaxAlloc)
           => ENABLED (ThrChoosePortLoad(t) /\ current_port_number' = current_port_number)
        /\ thread[t].pc = "choose_port_store"
           => ENABLED (ThrChoosePortStore(t) /\ current_port_number' = thread[t].tmp + 1)

\* both create calls returned an instance and the two instances, registered
\* under two names, have the same port
C26_Witness ==
    /\ \A t \in Threads : thread[t].pc = "idle" /\ thread[t].err = "none" /\ thread[t].ret # 0
    /\ thread[1].ret # thread[2].ret
    /\ port[thread[1].ret] = port[thread[2].ret]
    /\ {thread[1].ret, thread[2].ret} \subseteq RegisteredTcp

\* C27: in every state reached by start(), step() and stop() calls made one
\* after the other on library-backed instances, with the library free to
\* raise in each of them, the class-wide flag is true exactly when some
\* library-backed instance has its own flag true.
C27_FlagMatchesInstances == exists_started <=> StartedLib # {}

\* a stop() returned and cleared the flag while two library-backed instances exist
C27_Witness ==
    /\ last.op = "stop" /\ last.err = "none" /\ last.calls = <<"libsumo.close">>
    /\ ~exists_started /\ StartedLib = {}
    /\ Cardinality({i \in Ids : kind[i] = "lib"}) = 2

\* C28: a started process-backed instance has a process and a connected
\* connection, and both accessors return on it; the started flag goes from
\* false to true only in a start() call on that instance in which Popen and
\* then connect were called and both returned.
C28_StartedHasProcessAndConnection ==
    /\ \A i \in Ids : (kind[i] = "tcp" /\ is_started[i])
                      => (process[i] # 0 /\ connection[i] = "connected")
    /\ [][/\ \A i \in Ids :
               (kind'[i] = "tcp" /\ is_started'[i] /\ ~is_started[i])
               => /\ last'.op = "start" /\ last'.inst = i /\ last'.err = "none"
                  /\ last'.calls = <<"Popen", "connect">>
                  /\ process'[i] = process[i] + 1
                  /\ connection'[i] = "connected"
          /\ (/\ last'.op \in {"process", "connection"}
              /\ kind[last'.inst] = "tcp" /\ is_started[last'.inst])
             => last'.err = "none"]_vars

\* the connection accessor returned on an instance started at its second
\* start(), the first having failed at the connect
C28_Witness ==
    /\ last.op = "connection" /\ last.err = "none" /\ last.msg = "connected"
    /\ kind[last.inst] = "tcp" /\ is_started[last.inst]
    /\ process[last.inst] = 2

\* C29: whatever start() calls were made on a process-backed instance, it
\* spawned at most one process, the one its handle refers to: a start()
\* retried after a connect failure spawns no second process.
C29_OneProcessPerInstance ==
    \A i \in Ids : kind[i] = "tcp" => process[i] <= 1

\* C30: a create call that raises ValueError, for a name that is taken or a
\* path that does not exist, leaves the map and the port counter as they were.
C30_FailedCreateChangesNothing ==
    [][(IsCreate(last') /\ last'.err = "ValueError")
       => UNCHANGED <<mgrVars, objVars>>]_vars

====
